---- MODULE Spec2Model ----
(***************************************************************************)
(* Model of hack/fix-crd-claims.py: fix_claims(filename) reads a CRD YAML  *)
(* file into a list of lines, scans it once keeping the two loop locals    *)
(* in_claims_items / claims_indent, accumulates fixed_lines, then rewrites *)
(* the file and prints "Fixed CRD: <filename>".                            *)
(*                                                                         *)
(* A line is a record [indent, text]: indent is the number of leading      *)
(* spaces, text is the line with surrounding whitespace stripped ("" for a *)
(* blank line).  Indices are 1-based: model index i is code index i - 1.   *)
(***************************************************************************)
EXTENDS Integers, Sequences, FiniteSets, TLC

\* ------------------------------------------------------------------ bounds
MaxLen == 4
MaxBodyLen == 6
MaxRuns == 2

\* ------------------------------------------------------- numbers of the code
\* while j < len(lines) and j < i + 5
LookAheadSpan == 5
\* range(max(0, i-5), min(len(lines), i+5))
WindowSpan == 5
\* abs(...) < 2
IndentSlack == 2

\* ------------------------------------------------- string literals of the code
ClaimsKey == "claims:"
TypeObject == "type: object"
TypeArray == "type: array"
ListTypeSet == "x-kubernetes-list-type: set"
MapTypeKey == "x-kubernetes-map-type"
MapTypeAtomic == "x-kubernetes-map-type: atomic"
ItemsKey == "items:"
Blank == ""

\* The needles the code searches for with `in`, per stripped line text.
Substrings(text) ==
    CASE text = ClaimsKey -> {ClaimsKey}
      [] text = TypeArray -> {TypeArray}
      [] text = ListTypeSet -> {ListTypeSet}
      [] text = MapTypeAtomic -> {MapTypeKey, MapTypeAtomic}
      [] text = TypeObject -> {TypeObject}
      [] OTHER -> {}

\* `needle in line`
Contains(line, needle) == needle \in Substrings(line.text)

\* line.strip()
Strip(line) == line.text

\* len(line) - len(line.lstrip()): lstrip also eats the newline of a blank line
LeadingWs(line) == IF line.text = Blank THEN line.indent + 1 ELSE line.indent

\* " " * indent + "x-kubernetes-map-type: atomic\n"
MapTypeLine(indent) == [indent |-> indent, text |-> MapTypeAtomic]

Abs(n) == IF n < 0 THEN 0 - n ELSE n
Max(a, b) == IF a > b THEN a ELSE b
Min(a, b) == IF a < b THEN a ELSE b

\* ------------------------------------------------------------------ inputs
\* Two YAML levels for every key the scan looks at and for one it ignores;
\* the annotation one column and two columns in, so that it can sit at, one
\* off, or two off the indentation of a `type: object` line; the empty line.
Alphabet ==
    {[indent |-> n, text |-> t] :
        n \in {0, 2}, t \in {ClaimsKey, TypeObject, TypeArray, ListTypeSet, ItemsKey}}
        \cup {[indent |-> n, text |-> MapTypeAtomic] : n \in {1, 2}}
        \cup {[indent |-> 0, text |-> Blank]}

\* The layout of one claims block, for files long enough to reach both ends
\* of the window around a `type: object` line.
ClaimsLine == [indent |-> 0, text |-> ClaimsKey]

CoreAlphabet ==
    { ClaimsLine,
      [indent |-> 2, text |-> TypeObject],
      [indent |-> 2, text |-> TypeArray],
      [indent |-> 2, text |-> ListTypeSet],
      [indent |-> 2, text |-> MapTypeAtomic] }

Files(alphabet, maxlen) == UNION {[1..n -> alphabet] : n \in 0..maxlen}

\* files that open with a `claims:` line
BlockFiles == {<<ClaimsLine>> \o body : body \in Files(CoreAlphabet, MaxBodyLen)}

\* ------------------------------------------------------------------- state
VARIABLES
    file,             \* contents of the target file on disk
    fileExists,       \* whether open(filename, 'r') can succeed
    pc,               \* position inside fix_claims
    lines,            \* f.readlines()
    fixed_lines,
    i,
    in_claims_items,
    claims_indent,
    printed,          \* "Fixed CRD: <filename>" was written to stdout
    run,              \* which invocation of the script this is
    log               \* history: per loop iteration, the flag it started
                      \* with and the lines it appended to fixed_lines

vars == <<file, fileExists, pc, lines, fixed_lines, i, in_claims_items,
          claims_indent, printed, run, log>>

\* ------------------------------------------------------- the scan's helpers

\* The inner while loop: j runs from i+1 while j < len(lines) and j < i + 5,
\* stopping at the first line that contains the list-type needle.
RECURSIVE LookAhead(_, _, _, _)
LookAhead(ls, j, stop, found_array) ==
    IF j > Len(ls) \/ j >= stop
    THEN [found_array |-> found_array, found_list_type |-> FALSE]
    ELSE LET fa == found_array \/ Contains(ls[j], TypeArray)
         IN  IF Contains(ls[j], ListTypeSet)
             THEN [found_array |-> fa, found_list_type |-> TRUE]
             ELSE LookAhead(ls, j + 1, stop, fa)

\* found_array and found_list_type
Qualifies(ls, k) ==
    LET r == LookAhead(ls, k + 1, k + LookAheadSpan, FALSE)
    IN  r.found_array /\ r.found_list_type

\* for k in range(max(0, i-5), min(len(lines), i+5)): ...
HasMapType(ls, k) ==
    \E m \in Max(1, k - WindowSpan) .. Min(Len(ls), k + WindowSpan - 1) :
        /\ Contains(ls[m], MapTypeKey)
        /\ m # k
        /\ Abs(LeadingWs(ls[m]) - LeadingWs(ls[k])) < IndentSlack

\* line.strip() and current_indent <= claims_indent
ExitsBlock(line, cindent) == Strip(line) # Blank /\ LeadingWs(line) <= cindent

\* the flag once the block-exit test of lines 41-43 has run
FlagAfterExitTest(flag, line, cindent) == flag /\ ~ExitsBlock(line, cindent)

\* mutant: the `type: object` test sits outside `if in_claims_items:`
ObjectTestedUngated(flag, line) == Strip(line) = TypeObject

\* mutant: the line that ends the block is no longer tested
ObjectTestedInsideOnly(flag, line) ==
    flag /\ ~ExitsBlock(line, claims_indent) /\ Strip(line) = TypeObject

\* if in_claims_items: ... if line.strip() == "type: object":
ObjectTested(flag, line) == flag /\ Strip(line) = TypeObject

\* mutant: the annotation is appended in place of the line
AnnotationOnly(line) == <<MapTypeLine(LeadingWs(line))>>

\* fixed_lines.append(line); ...; fixed_lines.append(map_type_line)
AnnotatedOut(line) == <<line, MapTypeLine(LeadingWs(line))>>

\* what one iteration records in the history
Entry(out) ==
    [flag |-> in_claims_items, cindent |-> claims_indent, out |-> out]

\* ------------------------------------------------------------------ actions
Start(files) ==
    /\ fileExists \in BOOLEAN
    /\ file \in IF fileExists THEN files ELSE {<<>>}
    /\ pc = "start"
    /\ lines = <<>>
    /\ fixed_lines = <<>>
    /\ i = 1
    /\ in_claims_items = FALSE
    /\ claims_indent = 0
    /\ printed = FALSE
    /\ run = 1
    /\ log = <<>>

Init == Start(Files(Alphabet, MaxLen))

InitLong == Start(BlockFiles)

\* mutant: the file is opened for writing before the scan
OpenReadTruncating ==
    /\ pc = "start"
    /\ fileExists
    /\ lines' = file
    /\ file' = <<>>
    /\ fixed_lines' = <<>>
    /\ i' = 1
    /\ in_claims_items' = FALSE
    /\ claims_indent' = 0
    /\ log' = <<>>
    /\ pc' = "loop"
    /\ UNCHANGED <<fileExists, printed, run>>

\* with open(filename, 'r') as f: lines = f.readlines(); then the locals
OpenRead ==
    /\ pc = "start"
    /\ fileExists
    /\ lines' = file
    /\ fixed_lines' = <<>>
    /\ i' = 1
    /\ in_claims_items' = FALSE
    /\ claims_indent' = 0
    /\ log' = <<>>
    /\ pc' = "loop"
    /\ UNCHANGED <<file, fileExists, printed, run>>

\* open(filename, 'r') raises: nothing catches it
OpenReadFails ==
    /\ pc = "start"
    /\ ~fileExists
    /\ pc' = "error"
    /\ UNCHANGED <<file, fileExists, lines, fixed_lines, i, in_claims_items,
                   claims_indent, printed, run, log>>

\* "claims:" in line and not in_claims_items
EnterClaims ==
    /\ pc = "loop"
    /\ i <= Len(lines)
    /\ Contains(lines[i], ClaimsKey) /\ ~in_claims_items
    /\ in_claims_items' = TRUE
    /\ claims_indent' = LeadingWs(lines[i])
    /\ fixed_lines' = Append(fixed_lines, lines[i])
    /\ log' = Append(log, Entry(<<lines[i]>>))
    /\ i' = i + 1
    /\ UNCHANGED <<file, fileExists, pc, lines, printed, run>>

\* in_claims_items, line.strip() == "type: object", both found, no map type:
\* the line, then the annotation, then `continue`
Annotate ==
    /\ pc = "loop"
    /\ i <= Len(lines)
    /\ ~(Contains(lines[i], ClaimsKey) /\ ~in_claims_items)
    /\ ObjectTested(in_claims_items, lines[i])
    /\ Qualifies(lines, i) /\ ~HasMapType(lines, i)
    /\ in_claims_items' =
          FlagAfterExitTest(in_claims_items, lines[i], claims_indent)
    /\ LET out == AnnotatedOut(lines[i])
       IN  /\ fixed_lines' = fixed_lines \o out
           /\ log' = Append(log, Entry(out))
    /\ i' = i + 1
    /\ UNCHANGED <<file, fileExists, pc, lines, claims_indent, printed, run>>

\* in_claims_items, line.strip() == "type: object", but the look-ahead fails
\* or a map type is near: line 47 has appended the line, and control falls
\* through to line 83, which appends it again
ObjectFallThrough ==
    /\ pc = "loop"
    /\ i <= Len(lines)
    /\ ~(Contains(lines[i], ClaimsKey) /\ ~in_claims_items)
    /\ ObjectTested(in_claims_items, lines[i])
    /\ ~(Qualifies(lines, i) /\ ~HasMapType(lines, i))
    /\ in_claims_items' =
          FlagAfterExitTest(in_claims_items, lines[i], claims_indent)
    /\ LET out == <<lines[i], lines[i]>>
       IN  /\ fixed_lines' = fixed_lines \o out
           /\ log' = Append(log, Entry(out))
    /\ i' = i + 1
    /\ UNCHANGED <<file, fileExists, pc, lines, claims_indent, printed, run>>

\* every other line: the block-exit test when inside a block, then line 83
CopyLine ==
    /\ pc = "loop"
    /\ i <= Len(lines)
    /\ ~(Contains(lines[i], ClaimsKey) /\ ~in_claims_items)
    /\ ~ObjectTested(in_claims_items, lines[i])
    /\ in_claims_items' =
          FlagAfterExitTest(in_claims_items, lines[i], claims_indent)
    /\ fixed_lines' = Append(fixed_lines, lines[i])
    /\ log' = Append(log, Entry(<<lines[i]>>))
    /\ i' = i + 1
    /\ UNCHANGED <<file, fileExists, pc, lines, claims_indent, printed, run>>

\* the while condition fails; open(filename, 'w') truncates the file
OpenWrite ==
    /\ pc = "loop"
    /\ i > Len(lines)
    /\ file' = <<>>
    /\ fileExists' = TRUE
    /\ pc' = "opened"
    /\ UNCHANGED <<lines, fixed_lines, i, in_claims_items,
                   claims_indent, printed, run, log>>

\* f.writelines(fixed_lines)
WriteLines ==
    /\ pc = "opened"
    /\ file' = fixed_lines
    /\ pc' = "written"
    /\ UNCHANGED <<fileExists, lines, fixed_lines, i, in_claims_items,
                   claims_indent, printed, run, log>>

\* print(f"Fixed CRD: {filename}")
PrintFixed ==
    /\ pc = "written"
    /\ printed' = TRUE
    /\ pc' = "done"
    /\ UNCHANGED <<file, fileExists, lines, fixed_lines, i, in_claims_items,
                   claims_indent, run, log>>

\* the script is run again on the file it has just rewritten
Rerun ==
    /\ pc = "done"
    /\ run < MaxRuns
    /\ run' = run + 1
    /\ pc' = "start"
    /\ printed' = FALSE
    /\ UNCHANGED <<file, fileExists, lines, fixed_lines, i, in_claims_items,
                   claims_indent, log>>

Next ==
    \/ OpenRead
    \/ OpenReadFails
    \/ EnterClaims
    \/ Annotate
    \/ ObjectFallThrough
    \/ CopyLine
    \/ OpenWrite
    \/ WriteLines
    \/ PrintFixed

NextTwice == Next \/ Rerun

\* one run over every short file
Spec == Init /\ [][Next]_vars

\* one run over longer files that open with a claims line
SpecLong == InitLong /\ [][Next]_vars

\* the script run, then run again on its own output
SpecTwice == Init /\ [][NextTwice]_vars

\* ---------------------------------------------------- reading the history
\* the iterations the scan has completed
Processed == 1..Len(log)

\* in_claims_items / claims_indent as iteration k left them
FlagAfter(k) == IF k < Len(log) THEN log[k + 1].flag ELSE in_claims_items
CIndentAfter(k) == IF k < Len(log) THEN log[k + 1].cindent ELSE claims_indent

IsObjectLine(k) == Strip(lines[k]) = TypeObject

\* the annotation the claims speak of, for line k
AnnotationFor(k) == MapTypeLine(LeadingWs(lines[k]))

\* iteration k appended the line and then the annotation
Inserted(k) == log[k].out = <<lines[k], AnnotationFor(k)>>

\* iteration k appended the line once and nothing else
CopiedOnce(k) == log[k].out = <<lines[k]>>

RECURSIVE IsSubseq(_, _)
IsSubseq(a, b) ==
    IF a = <<>> THEN TRUE
    ELSE IF b = <<>> THEN FALSE
    ELSE IF Head(a) = Head(b) THEN IsSubseq(Tail(a), Tail(b))
    ELSE IsSubseq(a, Tail(b))

\* a `type: array` line and, after it, a list-type line within lines k+1..k+4
ArrayThenSet(k) ==
    \E a, s \in (k + 1)..Min(Len(lines), k + 4) :
        /\ a < s
        /\ Contains(lines[a], TypeArray)
        /\ Contains(lines[s], ListTypeSet)
        /\ \A m \in (k + 1)..(s - 1) : ~Contains(lines[m], ListTypeSet)

\* both kinds of line somewhere within lines k+1..k+4
LookaheadHasBoth(k) ==
    /\ \E a \in (k + 1)..Min(Len(lines), k + 4) : Contains(lines[a], TypeArray)
    /\ \E s \in (k + 1)..Min(Len(lines), k + 4) : Contains(lines[s], ListTypeSet)

\* line k lies in the block that the claims line c opens: deeper than c, and
\* no non-blank line between them is back at c's indentation
InBlockOf(c, k) ==
    /\ c < k
    /\ Contains(lines[c], ClaimsKey)
    /\ Strip(lines[k]) # Blank
    /\ LeadingWs(lines[k]) > LeadingWs(lines[c])
    /\ \A m \in (c + 1)..(k - 1) :
          Strip(lines[m]) = Blank \/ LeadingWs(lines[m]) > LeadingWs(lines[c])

\* a map-type line anywhere within five lines of k, at any indentation
MapTypeNearby(k) ==
    \E m \in Max(1, k - 5)..Min(Len(lines), k + 5) :
        m # k /\ Contains(lines[m], MapTypeKey)

\* the target of claim C2
Targeted(k) ==
    /\ IsObjectLine(k)
    /\ \E c \in 1..(k - 1) : InBlockOf(c, k)
    /\ ArrayThenSet(k)
    /\ ~MapTypeNearby(k)

\* ------------------------------------------------------------------ claims

\* C1: running fix_claims twice in a row on the same file leaves the file
\* as the first run left it: the second run reads what the first wrote and
\* writes it back unchanged.
Idempotent == (pc = "done" /\ run = 2) => file = lines

\* C2: a `type: object` line inside a claims block, followed within four
\* lines by `type: array` and then the list-type line, with no map-type
\* line nearby, is emitted once and immediately followed by one annotation
\* at its indentation; every other line of its block is emitted as it was
\* (once, plus its own annotation when it is itself such a target).
TargetedInsertion ==
    \A k \in Processed :
        Targeted(k) =>
            /\ Inserted(k)
            /\ \A c \in 1..(k - 1), m \in Processed :
                  (InBlockOf(c, k) /\ InBlockOf(c, m) /\ m # k)
                      => (CopiedOnce(m) \/ (Targeted(m) /\ Inserted(m)))

\* C3: a `type: object` line whose four look-ahead lines do not hold both
\* a `type: array` line and a list-type line adds exactly one line to the
\* output, the line itself.
NoFalsePositive ==
    \A k \in Processed :
        (IsObjectLine(k) /\ ~LookaheadHasBoth(k)) => CopiedOnce(k)

\* C4: the number of lines written is the number of lines read plus the
\* number of annotation lines inserted.
NumInserted == Cardinality({k \in Processed : Inserted(k)})

LineCountInvariant ==
    (pc \in {"written", "done"}) => Len(file) = Len(lines) + NumInserted

\* C5: the lines read are an order-preserving subsequence of the lines
\* written: none is dropped, altered or reordered.
StructuralPreservation ==
    (pc \in {"written", "done"}) => IsSubseq(lines, file)

WitnessStructuralPreservation ==
    /\ pc = "done"
    /\ \E k \in Processed : Inserted(k)
    /\ \E k \in Processed : ~IsObjectLine(k) /\ k > 1

\* C6 as stated: a qualifying, un-annotated `type: object` line gets the
\* annotation wherever it occurs, whatever the flag is when its iteration
\* starts.
FlagDoesNotGate ==
    \A k \in Processed :
        (IsObjectLine(k) /\ Qualifies(lines, k) /\ ~HasMapType(lines, k))
            => Inserted(k)

\* C6 amended: such a line gets the annotation exactly when in_claims_items
\* is true when its iteration starts; with the flag false it is copied once.
FlagGatesInsertion ==
    \A k \in Processed :
        (IsObjectLine(k) /\ Qualifies(lines, k) /\ ~HasMapType(lines, k))
            => /\ log[k].flag => Inserted(k)
               /\ ~log[k].flag => CopiedOnce(k)

WitnessFlagGatesInsertion ==
    \E k \in Processed :
        /\ IsObjectLine(k) /\ Qualifies(lines, k) /\ ~HasMapType(lines, k)
        /\ ~log[k].flag
        /\ CopiedOnce(k)
        /\ \E c \in 1..(k - 1) : Contains(lines[c], ClaimsKey)

\* C7: a qualifying `type: object` line with a map-type line at an index in
\* k-5..k+5 other than k, whose indentation is within one column of its
\* own, gets no annotation; the line exactly five below counts.
NoDuplicateOverWindow ==
    \A k \in Processed :
        ( /\ IsObjectLine(k)
          /\ Qualifies(lines, k)
          /\ \E m \in Max(1, k - 5)..Min(Len(lines), k + 5) :
                /\ m # k
                /\ Contains(lines[m], MapTypeKey)
                /\ Abs(LeadingWs(lines[m]) - LeadingWs(lines[k])) < 2 )
            => ~Inserted(k)

\* C8: the file is untouched until the scan is over, the message comes
\* only after the write, and a failed open for reading ends the run with
\* no file and no message.
WriteAfterPass ==
    /\ pc = "loop" => (file = lines /\ ~printed)
    /\ pc = "opened" => (i > Len(lines) /\ Len(log) = Len(lines) /\ ~printed)
    /\ pc = "written" => (file = fixed_lines /\ ~printed)
    /\ printed => (pc = "done" /\ file = fixed_lines)
    /\ pc = "error" => (~fileExists /\ file = <<>> /\ ~printed)

WitnessWriteAfterPass ==
    /\ pc = "done"
    /\ printed
    /\ file # lines
    /\ Len(lines) = MaxLen

\* C9: inside a block a non-blank line at or below claims_indent clears the
\* flag and is still tested as a `type: object` line in that iteration; a
\* blank line never clears the flag; with the flag clear every line is
\* copied untested until a line containing `claims:` sets it again.
BlockExitSameIteration ==
    \A k \in Processed :
        /\ (log[k].flag /\ ExitsBlock(lines[k], log[k].cindent))
              => /\ ~FlagAfter(k)
                 /\ ( /\ IsObjectLine(k)
                      /\ Qualifies(lines, k)
                      /\ ~HasMapType(lines, k) ) => Inserted(k)
        /\ (log[k].flag /\ Strip(lines[k]) = Blank) => FlagAfter(k)
        /\ (~log[k].flag /\ ~Contains(lines[k], ClaimsKey))
              => (CopiedOnce(k) /\ ~FlagAfter(k))
        /\ (~log[k].flag /\ Contains(lines[k], ClaimsKey)) => FlagAfter(k)

WitnessBlockExitSameIteration ==
    \E k \in Processed :
        /\ log[k].flag
        /\ ExitsBlock(lines[k], log[k].cindent)
        /\ IsObjectLine(k)
        /\ Inserted(k)
        /\ ~FlagAfter(k)
        /\ pc = "done"

====
